---- MODULE Spec2Model ----
(***************************************************************************)
(* Model of replay_cot.py: the log Scanner (parse_log_for_positions), the  *)
(* CoT Sender (send_cot_to_tak) and the replay driver (main).              *)
(*                                                                         *)
(* Time is counted in minutes.  A log line is a sequence of tokens, each   *)
(* token standing for a stretch of text that one piece of cot_regex can or *)
(* cannot match.  Decimal text is kept as sign / integer part / one        *)
(* fractional digit, and float() turns it into a signed number of tenths.  *)
(***************************************************************************)
EXTENDS Integers, Sequences, FiniteSets, TLC

VARIABLES
    pc,          \* position of main
    fileExists,  \* LOG_FILE can be opened
    lines,       \* content of LOG_FILE, one token sequence per line
    slept,       \* seconds main has spent in time.sleep
    start_time_str, \* what the user typed at "Start time: "
    end_time_str,   \* what the user typed at "End time: "
    start_time,  \* main's local start_time
    end_time,    \* main's local end_time
    positions,   \* main's local positions
    scan,        \* what the Scanner's call did: exception, line, collected
    idx,         \* number of loop iterations of main started
    spc,         \* position inside send_cot_to_tak
    cur,         \* arguments of the running Sender call
    exc,         \* exception in flight inside the Sender
    raised,      \* the exception the running call's try block met, if any
    open,        \* socket handles that are open (named by call number)
    cot_event,   \* the Sender's local cot_event
    wire,        \* events written to the server, in order
    log_message, \* what the Sender logged about the response
    error_message, \* which except clause of the Sender ran
    result,      \* what the last Sender call handed back to main
    calls,       \* the records the Sender was called for, in order
    trace        \* events of the driver loop: begin / ok / fail / sleep

vars == <<pc, fileExists, lines, slept, start_time_str, end_time_str,
          start_time, end_time, positions, scan, idx,
          spc, cur, exc, raised, open, cot_event, wire, log_message, error_message,
          result, calls, trace>>

---------------------------------------------------------------------------
(* Bounds *)
MaxTime == 3
MaxLines == 2
MaxScanLines == 2

(* Program constants *)
SAT_ID == 6073
REFRESH_INTERVAL == 10
StaleMinutes == 5

Times == 1..MaxTime

---------------------------------------------------------------------------
(* Values *)

\* decimal text  -?\d+\.\d+  : sign, integer part, one fractional digit
Dec(neg, ip, fp) == [neg |-> neg, ip |-> ip, fp |-> fp]
NoDec == Dec(FALSE, 0, 0)

\* float(text), in tenths
float(d) == (IF d.neg THEN -1 ELSE 1) * (d.ip * 10 + d.fp)

\* a datetime: minutes, and whether it carries a time zone
DateTime(t, tz) == [t |-> t, tz |-> tz]
NoTime == DateTime(0, FALSE)

\* text handed to dateutil's parse: ok = it denotes a date
DateText(ok, t, tz) == [ok |-> ok, t |-> t, tz |-> tz]

\* the text a "ts" token stands for
TsText(tok) == DateText(tok.ok, tok.t, FALSE)

parse_date_raises(s) == ~s.ok
parse_date(s) == DateTime(s.t, s.tz)

\* datetime + timedelta(minutes = m)
PlusMinutes(dt, m) == DateTime(dt.t + m, dt.tz)

\* comparing a naive with an aware datetime raises TypeError
CompareRaises(a, b) == a.tz # b.tz

---------------------------------------------------------------------------
(* Log lines *)

Tok(k, ok, t, d) == [k |-> k, ok |-> ok, t |-> t, d |-> d]
TsTok(t)    == Tok("ts", TRUE, t, NoDec)     \* YYYY-MM-DD HH:MM:SS,mmm
BadTsTok    == Tok("ts", FALSE, 0, NoDec)    \* same shape, no such date
HdrTok      == Tok("hdr", TRUE, 0, NoDec)    \* " - INFO - CoT for "
TxtTok      == Tok("txt", TRUE, 0, NoDec)    \* any other text
LatTok(d)   == Tok("lat", TRUE, 0, d)        \* ": lat=" decimal
LonTok(d)   == Tok("lon", TRUE, 0, d)        \* ", lon=" decimal
AltTok(d)   == Tok("alt", TRUE, 0, d)        \* ", alt=" decimal
ErrTok      == Tok("err", FALSE, 0, NoDec)   \* bytes the reader cannot decode

LatA == Dec(FALSE, 12, 3)
LatB == Dec(TRUE, 4, 5)
LonA == Dec(TRUE, 56, 7)
AltA == Dec(FALSE, 100, 0)
AltNeg == Dec(TRUE, 1, 5)

GoodLine(t, lat)  == <<TsTok(t), HdrTok, TxtTok, LatTok(lat), LonTok(LonA), AltTok(AltA)>>
PrefixedLine(t)   == <<TxtTok>> \o GoodLine(t, LatA)
SuffixedLine(t)   == GoodLine(t, LatA) \o <<TxtTok>>
SignedAltLine(t)  == <<TsTok(t), HdrTok, TxtTok, LatTok(LatA), LonTok(LonA), AltTok(AltNeg)>>
OtherLine(t)      == <<TsTok(t), TxtTok>>
BadDateLine       == <<BadTsTok, HdrTok, TxtTok, LatTok(LatA), LonTok(LonA), AltTok(AltA)>>
UndecodableLine   == <<ErrTok>>

SetMin(S) == CHOOSE x \in S : \A y \in S : x <= y
SetMax(S) == CHOOSE x \in S : \A y \in S : y <= x

SeqsUpTo(S, n) == UNION { [1..k -> S] : k \in 0..n }

---------------------------------------------------------------------------
(* cot_regex and the Scanner *)

MatchEnds_SignedAlt(line, i) ==
    IF i + 1 <= Len(line) /\ line[i].k = "ts" /\ line[i + 1].k = "hdr"
    THEN { j \in (i + 2)..(Len(line) - 2) :
             /\ line[j].k = "lat"
             /\ line[j + 1].k = "lon"
             /\ line[j + 2].k = "alt" }
    ELSE {}

\* positions j where  ": lat=.., lon=.., alt=<unsigned>"  can end a match of
\* cot_regex that starts at token i
MatchEnds(line, i) ==
    IF i + 1 <= Len(line) /\ line[i].k = "ts" /\ line[i + 1].k = "hdr"
    THEN { j \in (i + 2)..(Len(line) - 2) :
             /\ line[j].k = "lat"
             /\ line[j + 1].k = "lon"
             /\ line[j + 2].k = "alt"
             /\ ~line[j + 2].d.neg }
    ELSE {}

NoMatch == [found |-> FALSE, ts |-> BadTsTok, lat |-> NoDec, lon |-> NoDec, alt |-> NoDec]

\* cot_regex.search(line): leftmost start, greedy ".*"
search(line) ==
    LET starts == { i \in 1..Len(line) : MatchEnds(line, i) # {} } IN
    IF starts = {} THEN NoMatch
    ELSE LET i == SetMin(starts)
             j == SetMax(MatchEnds(line, i))
         IN [found |-> TRUE, ts |-> line[i], lat |-> line[j].d,
             lon |-> line[j + 1].d, alt |-> line[j + 2].d]

\* start_time <= timestamp <= end_time, a chained comparison
WindowRaises(s, ts, e) ==
    \/ CompareRaises(s, ts)
    \/ (s.t <= ts.t /\ CompareRaises(ts, e))
InWindow_ExclusiveEnd(s, ts, e) == s.t <= ts.t /\ ts.t < e.t
InWindow(s, ts, e) == s.t <= ts.t /\ ts.t <= e.t

ScanState(ex, at, acc) == [exc |-> ex, at |-> at, collected |-> acc]

\* the body of  for line in file  from line k on, acc = positions so far
RECURSIVE ScanLines(_, _, _, _, _)
ScanLines(ls, k, acc, s, e) ==
    IF k > Len(ls) THEN ScanState("none", 0, acc)
    ELSE IF ls[k][1].k = "err" THEN ScanState("UnicodeDecodeError", k, acc)
    ELSE LET m == search(ls[k]) IN
         IF ~m.found THEN ScanLines(ls, k + 1, acc, s, e)
         ELSE IF parse_date_raises(TsText(m.ts)) THEN ScanState("ValueError", k, acc)
         ELSE LET timestamp == parse_date(TsText(m.ts)) IN
              IF WindowRaises(s, timestamp, e) THEN ScanState("TypeError", k, acc)
              ELSE IF InWindow(s, timestamp, e)
                   THEN ScanLines(ls, k + 1,
                            Append(acc, <<timestamp, float(m.lat), float(m.lon), float(m.alt)>>),
                            s, e)
                   ELSE ScanLines(ls, k + 1, acc, s, e)

\* what happens inside the try block of parse_log_for_positions
ScanRun(exists, ls, s, e) ==
    IF ~exists THEN ScanState("FileNotFoundError", 0, <<>>)
    ELSE ScanLines(ls, 1, <<>>, s, e)

parse_log_for_positions_Partial(exists, ls, s, e) ==
    ScanRun(exists, ls, s, e).collected

\* the value parse_log_for_positions returns
parse_log_for_positions(exists, ls, s, e) ==
    LET r == ScanRun(exists, ls, s, e) IN
    IF r.exc = "none" THEN r.collected ELSE <<>>

---------------------------------------------------------------------------
(* The Sender: send_cot_to_tak *)

NoRecord == <<NoTime, 0, 0, 0>>
NoEvent == [uid |-> <<"SAT", 0>>, time |-> NoTime, start |-> NoTime,
            stale |-> NoTime, lat |-> 0, lon |-> 0, hae |-> 0]

Event_StaleFromInterval(lat, lon, alt, timestamp) ==
    [uid |-> <<"SAT", SAT_ID>>, time |-> timestamp, start |-> timestamp,
     stale |-> PlusMinutes(timestamp, REFRESH_INTERVAL),
     lat |-> lat, lon |-> lon, hae |-> alt]

\* CoT.Event(...) as built from the arguments of the call
Event(lat, lon, alt, timestamp) ==
    [uid |-> <<"SAT", SAT_ID>>, time |-> timestamp, start |-> timestamp,
     stale |-> PlusMinutes(timestamp, StaleMinutes),
     lat |-> lat, lon |-> lon, hae |-> alt]

\* what  wrapped_sock.recv(1024).decode("utf-8")  raises for each thing the
\* read can do
RecvRaises(r) ==
    CASE r = "timeout"     -> "socket.timeout"
      [] r = "undecodable" -> "UnicodeDecodeError"
      [] r = "SSLError"    -> "SSLError"
      [] r = "OSError"     -> "OSError"
      [] OTHER             -> "none"

\* the inner try/except around the read: the exception that leaves it
InnerExcept(e) == IF e = "socket.timeout" THEN "none" ELSE e

\* the message the inner try/except leaves in log_message
ResponseMessage(e) == IF e = "socket.timeout" THEN "No response" ELSE "Response"

Exceptions == {"ConnectionRefusedError", "SSLError", "OSError", "ValueError",
               "UnicodeDecodeError", "socket.timeout"}

Handler_NoCatchAll(e) ==
    IF e \in {"ConnectionRefusedError", "SSLError"} THEN "SSL connection error"
    ELSE IF e \in {"ValueError"} THEN "Unexpected error"
    ELSE "propagate"

Handler_RefusedOnly(e) ==
    IF e \in {"ConnectionRefusedError"} THEN "SSL connection error"
    ELSE IF e \in Exceptions THEN "Unexpected error"
    ELSE "propagate"

\* the outer except clauses: which one takes exception e
Handler(e) ==
    IF e \in {"ConnectionRefusedError", "SSLError"} THEN "SSL connection error"
    ELSE IF e \in Exceptions THEN "Unexpected error"
    ELSE "propagate"

InCall(p) == pc = "call" /\ spc = p

SenderLocals == <<cur, cot_event>>
Inputs == <<start_time_str, end_time_str, start_time, end_time>>
DriverVars == <<pc, fileExists, lines, slept, Inputs, positions, scan, idx, calls>>

\* a step of the try block ends in exception f
Raise(f) ==
    /\ exc' = f
    /\ raised' = f
    /\ spc' = "except"

OpenSocket ==
    /\ InCall("socket")
    /\ \E f \in {"none", "OSError", "SSLError"} :
         IF f = "none"
         THEN /\ open' = open \cup {idx}
              /\ spc' = "connect"
              /\ exc' = exc /\ raised' = raised
         ELSE /\ Raise(f)
              /\ open' = open
    /\ UNCHANGED <<DriverVars, SenderLocals, wire, log_message, error_message,
                   result, trace>>

Connect ==
    /\ InCall("connect")
    /\ \E f \in {"none", "ConnectionRefusedError", "SSLError", "OSError"} :
         IF f = "none"
         THEN spc' = "build" /\ exc' = exc /\ raised' = raised
         ELSE Raise(f)
    /\ UNCHANGED <<DriverVars, SenderLocals, open, wire, log_message,
                   error_message, result, trace>>

BuildEvent ==
    /\ InCall("build")
    /\ \E f \in {"none", "ValueError"} :
         IF f = "none"
         THEN /\ cot_event' = Event(cur[2], cur[3], cur[4], cur[1])
              /\ spc' = "send"
              /\ exc' = exc /\ raised' = raised
         ELSE /\ Raise(f)
              /\ cot_event' = cot_event
    /\ UNCHANGED <<DriverVars, cur, open, wire, log_message, error_message,
                   result, trace>>

SendAll ==
    /\ InCall("send")
    /\ \E f \in {"none", "SSLError", "OSError"} :
         IF f = "none"
         THEN /\ wire' = Append(wire, [call |-> idx, event |-> cot_event])
              /\ spc' = "recv"
              /\ exc' = exc /\ raised' = raised
         ELSE /\ Raise(f)
              /\ wire' = wire
    /\ UNCHANGED <<DriverVars, SenderLocals, open, log_message, error_message,
                   result, trace>>

Recv ==
    /\ InCall("recv")
    /\ \E r \in {"data", "empty", "timeout", "undecodable", "SSLError", "OSError"} :
         LET e == InnerExcept(RecvRaises(r)) IN
         IF e = "none"
         THEN /\ log_message' = ResponseMessage(RecvRaises(r))
              /\ spc' = "close"
              /\ exc' = exc
              /\ raised' = RecvRaises(r)
         ELSE /\ Raise(e)
              /\ log_message' = log_message
    /\ UNCHANGED <<DriverVars, SenderLocals, open, wire, error_message,
                   result, trace>>

CloseReturn ==
    /\ InCall("close")
    /\ open' = open \ {idx}
    /\ result' = "True"
    /\ spc' = "returned"
    /\ trace' = Append(trace, "ok")
    /\ UNCHANGED <<DriverVars, SenderLocals, exc, raised, wire, log_message,
                   error_message>>

\* the except clauses.  They do not close the socket: once the call is over
\* the handle is left to the runtime, which may reclaim it at once or not.
Except ==
    /\ InCall("except")
    /\ exc' = "none"
    /\ \E reclaimed \in BOOLEAN :
         open' = IF reclaimed THEN open \ {idx} ELSE open
    /\ IF Handler(exc) = "propagate"
       THEN \* main's  except Exception  ends the run
            /\ pc' = "done"
            /\ spc' = "idle"
            /\ UNCHANGED <<error_message, result, trace>>
       ELSE /\ error_message' = Handler(exc)
            /\ result' = "False"
            /\ spc' = "returned"
            /\ trace' = Append(trace, "fail")
            /\ pc' = pc
    /\ UNCHANGED <<fileExists, lines, slept, Inputs, positions, scan, idx, calls,
                   SenderLocals, raised, wire, log_message>>

---------------------------------------------------------------------------
(* The driver: main *)

NoText == DateText(FALSE, 0, FALSE)
NotScanned == ScanState("not called", 0, <<>>)

\* what can be typed at a prompt: something that is no date, or a date with
\* or without a time zone
InputTexts == {NoText} \cup { DateText(TRUE, t, tz) : t \in Times, tz \in BOOLEAN }

SenderVars == <<spc, cur, exc, raised, open, cot_event, wire, log_message,
                error_message, result, trace>>

\* lines 137-141: the two prompts and the two parse_date calls; a ValueError
\* goes to main's except clause
ReadInput ==
    /\ pc = "input"
    /\ \E s \in InputTexts, e \in InputTexts :
         /\ start_time_str' = s
         /\ end_time_str' = e
         /\ IF parse_date_raises(s) \/ parse_date_raises(e)
            THEN /\ pc' = "done"
                 /\ UNCHANGED <<start_time, end_time>>
            ELSE /\ start_time' = parse_date(s)
                 /\ end_time' = parse_date(e)
                 /\ pc' = "validate"
    /\ UNCHANGED <<fileExists, lines, slept, positions, scan, idx, calls, SenderVars>>

NotBefore_Strict(s, e) == s.t > e.t

\* line 143: start_time >= end_time
NotBefore(s, e) == s.t >= e.t

\* lines 143-146: a TypeError of the comparison goes to main's except clause
Validate ==
    /\ pc = "validate"
    /\ IF CompareRaises(start_time, end_time) THEN pc' = "done"
       ELSE IF NotBefore(start_time, end_time) THEN pc' = "done"
       ELSE pc' = "scan"
    /\ UNCHANGED <<fileExists, lines, slept, Inputs, positions, scan, idx, calls, SenderVars>>

\* line 149
Scan ==
    /\ pc = "scan"
    /\ scan' = ScanRun(fileExists, lines, start_time, end_time)
    /\ positions' = parse_log_for_positions(fileExists, lines, start_time, end_time)
    /\ pc' = "check"
    /\ UNCHANGED <<fileExists, lines, slept, Inputs, idx, calls, SenderVars>>

\* lines 150-156
CheckPositions ==
    /\ pc = "check"
    /\ pc' = IF positions = <<>> THEN "done" ELSE "loop"
    /\ UNCHANGED <<fileExists, lines, slept, Inputs, positions, scan, idx, calls, SenderVars>>

\* lines 159-160: the next record of positions is handed to the Sender
LoopNext ==
    /\ pc = "loop"
    /\ idx < Len(positions)
    /\ idx' = idx + 1
    /\ cur' = positions[idx + 1]
    /\ calls' = Append(calls, positions[idx + 1])
    /\ trace' = Append(trace, "begin")
    /\ pc' = "call"
    /\ spc' = "socket"
    /\ cot_event' = NoEvent
    /\ log_message' = "none"
    /\ error_message' = "none"
    /\ result' = "none"
    /\ raised' = "none"
    /\ UNCHANGED <<fileExists, lines, slept, Inputs, positions, scan, exc, open, wire>>

\* line 159, positions exhausted
LoopEnd ==
    /\ pc = "loop"
    /\ idx >= Len(positions)
    /\ pc' = "done"
    /\ UNCHANGED <<fileExists, lines, slept, Inputs, positions, scan, idx, calls, SenderVars>>

TakesSleepBranch_Always(r) == r \in {"True", "False"}

\* line 160: does main take the branch that sleeps
TakesSleepBranch(r) == r = "True"

\* line 161
Sleep ==
    /\ InCall("returned")
    /\ TakesSleepBranch(result)
    /\ trace' = Append(trace, "sleep")
    /\ slept' = slept + REFRESH_INTERVAL
    /\ pc' = "loop"
    /\ spc' = "idle"
    /\ UNCHANGED <<fileExists, lines, Inputs, positions, scan, idx, calls,
                   cur, exc, raised, open, cot_event, wire, log_message,
                   error_message, result>>

\* lines 162-164
LogFailure ==
    /\ InCall("returned")
    /\ ~TakesSleepBranch(result)
    /\ pc' = "loop"
    /\ spc' = "idle"
    /\ UNCHANGED <<fileExists, lines, slept, Inputs, positions, scan, idx, calls,
                   cur, exc, raised, open, cot_event, wire, log_message,
                   error_message, result, trace>>

---------------------------------------------------------------------------
(* Specifications *)

\* lines a log of the replayed program can hold, for runs of main
DriverLines ==
    { GoodLine(t, LatA) : t \in Times }
      \cup {OtherLine(1), BadDateLine, UndecodableLine}

\* lines for the Scanner on its own
ScannerLines ==
    { GoodLine(t, lat) : t \in Times, lat \in {LatA, LatB} }
      \cup { PrefixedLine(t) : t \in Times }
      \cup { SuffixedLine(t) : t \in Times }
      \cup {SignedAltLine(1), OtherLine(1), BadDateLine, UndecodableLine}

InitWith(LineSet, n) ==
    /\ pc = "input"
    /\ fileExists \in BOOLEAN
    /\ lines \in SeqsUpTo(LineSet, n)
    /\ (~fileExists => lines = <<>>)
    /\ slept = 0
    /\ start_time_str = NoText
    /\ end_time_str = NoText
    /\ start_time = NoTime
    /\ end_time = NoTime
    /\ positions = <<>>
    /\ scan = NotScanned
    /\ idx = 0
    /\ spc = "idle"
    /\ cur = NoRecord
    /\ exc = "none"
    /\ raised = "none"
    /\ open = {}
    /\ cot_event = NoEvent
    /\ wire = <<>>
    /\ log_message = "none"
    /\ error_message = "none"
    /\ result = "none"
    /\ calls = <<>>
    /\ trace = <<>>

Init == InitWith(DriverLines, MaxLines)

Next ==
    \/ ReadInput
    \/ Validate
    \/ Scan
    \/ CheckPositions
    \/ LoopNext
    \/ OpenSocket
    \/ Connect
    \/ BuildEvent
    \/ SendAll
    \/ Recv
    \/ CloseReturn
    \/ Except
    \/ Sleep
    \/ LogFailure
    \/ LoopEnd

Spec == Init /\ [][Next]_vars

\* the Scanner called on its own, with any two datetimes
ScanOnly ==
    /\ pc = "input"
    /\ \E s \in Times, e \in Times, stz \in BOOLEAN, etz \in BOOLEAN :
         /\ start_time' = DateTime(s, stz)
         /\ end_time' = DateTime(e, etz)
         /\ scan' = ScanRun(fileExists, lines, DateTime(s, stz), DateTime(e, etz))
         /\ positions' = parse_log_for_positions(fileExists, lines,
                                                 DateTime(s, stz), DateTime(e, etz))
    /\ pc' = "scanned"
    /\ UNCHANGED <<fileExists, lines, slept, start_time_str, end_time_str, idx, calls, SenderVars>>

InitScan == InitWith(ScannerLines, MaxScanLines)
NextScan == ScanOnly
SpecScan == InitScan /\ [][NextScan]_vars

---------------------------------------------------------------------------
(* Properties *)

\* the Sender is not running: before the first call, between calls, or just
\* back in main
SenderIdle == spc \in {"idle", "returned"}

\* the running (or last) call wrote its event
Written == \E n \in 1..Len(wire) : wire[n].call = idx

\* C1: after every Sender call has returned, on success and on failure, the
\* socket that call opened is closed, so no handle of an earlier call is open
\* when the next begins and at most one handle is open at any time.
C1_ClosedAfterEveryCall ==
    /\ SenderIdle => open = {}
    /\ Cardinality(open) <= 1

\* n-th smallest element of a set of numbers
Nth(S, n) == CHOOSE x \in S : Cardinality({ y \in S : y < x }) = n - 1

\* the line contains text cot_regex matches, carrying a date t inside the window
KeptLine(line, s, e) ==
    LET m == search(line) IN
    m.found /\ m.ts.ok /\ s.t <= m.ts.t /\ m.ts.t <= e.t

RecordOf(line) ==
    LET m == search(line) IN
    <<DateTime(m.ts.t, FALSE), float(m.lat), float(m.lon), float(m.alt)>>

\* positions is the file's kept lines, one record each, in line order
ExactlyKeptInOrder ==
    LET K == { k \in 1..Len(lines) : KeptLine(lines[k], start_time, end_time) } IN
    /\ Len(positions) = Cardinality(K)
    /\ \A n \in 1..Len(positions) : positions[n] = RecordOf(lines[Nth(K, n)])

Readable == fileExists /\ \A k \in 1..Len(lines) : lines[k] # UndecodableLine

\* C2 as stated: for every readable file and every window the Scanner returns
\* exactly the in-window matching lines' records, in line order.
C2_EveryReadableFile ==
    (pc = "scanned" /\ Readable) => ExactlyKeptInOrder

\* C2, amended: the same, for every scan that meets no exception.
C2_ExactWhenNoException ==
    (pc = "scanned" /\ Readable /\ scan.exc = "none") => ExactlyKeptInOrder

\* a file that is not chronological, with in-window, out-of-window and
\* non-matching lines, scanned without exception
C2_Witness ==
    /\ pc = "scanned" /\ scan.exc = "none"
    /\ Len(lines) = 2 /\ Len(positions) = 1
    /\ lines[1] = GoodLine(3, LatA) /\ lines[2] = GoodLine(1, LatB)
    /\ start_time.t = 1 /\ end_time.t = 1

\* C3: the Sender is called once for each record of a non-empty Scanner
\* result, in Scanner order, whatever the outcomes of the sends: calls is
\* always the first idx records, and the run ends with calls = positions.
C3_OneCallPerRecordInOrder ==
    /\ Len(calls) = idx
    /\ idx <= Len(positions)
    /\ calls = SubSeq(positions, 1, idx)
    /\ Cardinality({ n \in 1..Len(trace) : trace[n] = "begin" }) = idx
    /\ (pc = "done" /\ positions # <<>>) => calls = positions

C3_Witness ==
    /\ pc = "done"
    /\ Len(positions) = 2
    /\ calls = positions
    /\ trace[2] = "fail"

\* C4: a call that has connected and written its event returns success,
\* whatever the response read does.
C4_WrittenMeansSuccess ==
    (spc = "returned" /\ Written) => result = "True"

\* C5: no Sender call and no connection when an input is no date, when
\* start_time >= end_time, when the log file is missing, or when the Scanner
\* returns nothing; in the first two cases the Scanner is not called either.
NoSend == calls = <<>> /\ open = {} /\ wire = <<>> /\ trace = <<>>
InputsRead == pc # "input"
BothDates == start_time_str.ok /\ end_time_str.ok
C5_NoSendOnInvalidRun ==
    /\ (InputsRead /\ ~BothDates) => (NoSend /\ scan = NotScanned)
    /\ (InputsRead /\ BothDates /\ start_time.tz = end_time.tz
          /\ start_time.t >= end_time.t) => (NoSend /\ scan = NotScanned)
    /\ ~fileExists => NoSend
    /\ (scan # NotScanned /\ positions = <<>>) => NoSend

C5_Witness ==
    /\ pc = "done"
    /\ BothDates /\ start_time = end_time
    /\ lines = <<GoodLine(start_time.t, LatA)>>
    /\ fileExists /\ ~start_time.tz

\* line k of the file makes the scan raise
RaisingLine(k) ==
    \/ lines[k] = UndecodableLine
    \/ lines[k] = BadDateLine
    \/ (search(lines[k]).found /\ start_time.tz)

\* C6: when the scan meets an exception (missing file, or an error at line k)
\* the Scanner returns the empty list to main, which goes on at its emptiness
\* test; the scan stopped at the first such line, what it had collected from
\* the lines before is not returned, and no send is attempted.
C6_ExceptionMeansEmptyScan ==
    (scan.exc \notin {"none", "not called"}) =>
        /\ positions = <<>>
        /\ pc \in {"check", "done"}
        /\ NoSend
        /\ fileExists =>
             /\ scan.at \in 1..Len(lines)
             /\ RaisingLine(scan.at)
             /\ \A k \in 1..(scan.at - 1) : ~RaisingLine(k)
             /\ Len(scan.collected) <= scan.at - 1

C6_Witness ==
    /\ pc = "done"
    /\ scan.exc = "ValueError"
    /\ scan.at = 2
    /\ Len(scan.collected) = 1

\* C7: every event written has time = start = the timestamp of the record of
\* its call, stale = that timestamp + 5 minutes, and uid SAT.6073.
C7_StaleIsStartPlusFive ==
    \A n \in 1..Len(wire) :
        LET ev == wire[n].event
            ts == calls[wire[n].call][1]
        IN /\ ev.time = ts
           /\ ev.start = ts
           /\ ev.stale = DateTime(ts.t + 5, ts.tz)
           /\ ev.uid = <<"SAT", 6073>>

C7_Witness ==
    /\ Len(wire) = 2
    /\ wire[1].event.start # wire[2].event.start
    /\ wire[2].event.stale.t = wire[2].event.start.t + 5

\* every call that began has handed success or failure back to main
EveryCallReturned ==
    /\ (SenderIdle /\ idx > 0) => result \in {"True", "False"}
    /\ (result = "True") => error_message = "none"
    /\ (result = "False") => error_message \in {"SSL connection error", "Unexpected error"}

SslFailure == result = "False" /\ error_message = "SSL connection error"
UnexpectedFailure == result = "False" /\ error_message = "Unexpected error"

\* C8 as stated: every call returns; a refusal or TLS error at any step gives
\* the SSL/connection failure, every other exception at any step gives the
\* unexpected-error failure.
C8_EveryOtherExceptionFails ==
    /\ EveryCallReturned
    /\ spc = "returned" =>
         /\ raised \in {"ConnectionRefusedError", "SSLError"} => SslFailure
         /\ raised \notin {"none", "ConnectionRefusedError", "SSLError"} => UnexpectedFailure

\* C8, amended: the same, except that a timeout of the response read is no
\* failure.
C8_ExceptionClassified ==
    /\ EveryCallReturned
    /\ spc = "returned" =>
         /\ raised \in {"ConnectionRefusedError", "SSLError"} => SslFailure
         /\ raised \notin {"none", "ConnectionRefusedError", "SSLError", "socket.timeout"}
              => UnexpectedFailure
         /\ raised \in {"none", "socket.timeout"} => result = "True"

C8_Witness ==
    /\ pc = "done"
    /\ Len(trace) >= 4
    /\ trace[2] = "fail"
    /\ raised = "SSLError"
    /\ SslFailure
    /\ Written

\* C9: between two consecutive calls the pause happens once after a success
\* and not at all after a failure, after the earlier call has returned and
\* before the later one starts.
C9_PauseOnlyAfterSuccess ==
    /\ \A n \in 1..Len(trace) :
         /\ (trace[n] = "begin" /\ n > 1) =>
              \/ trace[n - 1] = "fail"
              \/ (n > 2 /\ trace[n - 1] = "sleep" /\ trace[n - 2] = "ok")
         /\ (trace[n] = "sleep") => (n > 1 /\ trace[n - 1] = "ok")
         /\ (trace[n] \in {"ok", "fail"}) => (n > 1 /\ trace[n - 1] = "begin")
         /\ (trace[n] = "ok" /\ n < Len(trace)) => trace[n + 1] = "sleep"
    /\ (trace # <<>> /\ trace[Len(trace)] = "sleep") => SenderIdle
    /\ slept = 10 * Cardinality({ n \in 1..Len(trace) : trace[n] = "sleep" })

C9_Witness ==
    /\ trace = <<"begin", "ok", "sleep", "begin", "fail">>
    /\ slept = 10
    /\ pc = "done"

\* the whole line is  <timestamp> - INFO - CoT for <anything>: lat=.., lon=..,
\* alt=<unsigned>
ConformsExactly(line) ==
    /\ Len(line) >= 5
    /\ line[1].k = "ts" /\ line[2].k = "hdr"
    /\ line[Len(line) - 2].k = "lat" /\ line[Len(line) - 1].k = "lon"
    /\ line[Len(line)].k = "alt" /\ ~line[Len(line)].d.neg

\* some stretch of the line is such text
ContainsPattern(line) ==
    \E i \in 1..Len(line), j \in 1..Len(line) :
        /\ i + 2 <= j /\ j + 2 <= Len(line)
        /\ line[i].k = "ts" /\ line[i + 1].k = "hdr"
        /\ line[j].k = "lat" /\ line[j + 1].k = "lon"
        /\ line[j + 2].k = "alt" /\ ~line[j + 2].d.neg

\* C10 as stated: every record comes from a line that conforms as a whole.
C10_OnlyExactLines ==
    pc = "scanned" =>
        \A n \in 1..Len(positions) :
            \E k \in 1..Len(lines) :
                ConformsExactly(lines[k]) /\ positions[n] = RecordOf(lines[k])

\* C10, amended: every record comes from a line that contains conforming
\* text; a file whose lines contain none (a signed altitude included) is
\* scanned without exception and yields nothing.
C10_OnlyLinesContainingPattern ==
    pc = "scanned" =>
        /\ \A n \in 1..Len(positions) :
             \E k \in 1..Len(lines) :
                 ContainsPattern(lines[k]) /\ positions[n] = RecordOf(lines[k])
        /\ (Readable /\ \A k \in 1..Len(lines) : ~ContainsPattern(lines[k]))
             => (scan.exc = "none" /\ positions = <<>>)

C10_Witness ==
    /\ pc = "scanned"
    /\ lines = <<SignedAltLine(1), SuffixedLine(2)>>
    /\ Len(positions) = 1
    /\ positions[1][1].t = 2
====
